---- MODULE Spec2Model ----
(***************************************************************************)
(* packages/core/useTimeAgo/index.ts: formatTimeAgo, the pure bucketing    *)
(* and formatting function, and useTimeAgo, the reactive wrapper that      *)
(* re-evaluates it against a ticking current-time source.                  *)
(*                                                                         *)
(* Numbers.  Every timestamp and duration is carried in units of 100 ms,   *)
(* so that the year-sized constants of DEFAULT_UNITS fit a 32-bit integer. *)
(* Every constant of the source is a whole number of seconds, and the      *)
(* function only ever compares durations and rounds quotients of two of    *)
(* them, so on inputs that are multiples of 100 ms the results are the     *)
(* source's.  Sec(n) is the duration the source writes as n * 1000.        *)
(* NaN and Infinity are two reserved values with the IEEE behaviour spelt  *)
(* out in Sub, Abs, Lt and Gt.                                             *)
(***************************************************************************)
EXTENDS Integers, Sequences, FiniteSets, TLC

VARIABLES
    from,       \* formatTimeAgo: +from, the timestamp of the `from` Date (NaN: invalid Date)
    now,        \* formatTimeAgo: +now
    options,    \* formatTimeAgo: the options object (absent fields take the defaults)
    result,     \* formatTimeAgo: what the call returned
    pc,         \* formatTimeAgo: "ready" before the call, "done" after
    time,       \* useTimeAgo: timestamp of new Date(toValue(time))
    uopts,      \* useTimeAgo: the options object
    clock,      \* the wall clock read by new Date() inside the time source
    nowRef,     \* useNow: now.value
    isActive,   \* useNow / interval: the timer is running
    elapsed,    \* interval timer: time since the timer was (re)started or last fired
    cache,      \* computed(): the value held by timeAgo
    dirty,      \* computed(): a dependency changed since the value was computed
    last        \* the last operation performed on the wrapper

fvars == <<from, now, options, result, pc>>
rvars == <<time, uopts, clock, nowRef, isActive, elapsed, cache, dirty, last>>
vars == <<from, now, options, result, pc,
          time, uopts, clock, nowRef, isActive, elapsed, cache, dirty, last>>

----------------------------------------------------------------------------
(* Numbers *)

\* the value of +date for an invalid Date, and of every arithmetic on it
NaN == -2147483647

\* the `Infinity` of the last default unit's max
Infinity == 2147483647

\* n * 1000 ms
Sec(n) == n * 10

\* a - b of the source (line 142)
Sub(a, b) == IF a = NaN \/ b = NaN THEN NaN ELSE a - b

\* Math.abs
Abs(a) == IF a = NaN THEN NaN ELSE IF a = Infinity THEN Infinity ELSE IF a < 0 THEN -a ELSE a

\* a < b and a > b of the source: false as soon as one side is NaN
Lt(a, b) == a # NaN /\ b # NaN /\ a < b
Gt(a, b) == a # NaN /\ b # NaN /\ a > b

\* JavaScript truthiness of a number or undefined (a missing unit is NaN-like: falsy)
Truthy(n) == n # NaN /\ n # 0

----------------------------------------------------------------------------
(* Unit tables *)

\* DEFAULT_UNITS with a finite bound on the last unit
DEFAULT_UNITS_FINITE ==
    << [max |-> Sec(60),       value |-> Sec(1),        name |-> "second"],
       [max |-> Sec(2760),     value |-> Sec(60),       name |-> "minute"],
       [max |-> Sec(72000),    value |-> Sec(3600),     name |-> "hour"],
       [max |-> Sec(518400),   value |-> Sec(86400),    name |-> "day"],
       [max |-> Sec(2419200),  value |-> Sec(604800),   name |-> "week"],
       [max |-> Sec(28512000), value |-> Sec(2592000),  name |-> "month"],
       [max |-> Sec(31536000), value |-> Sec(31536000), name |-> "year"] >>

DEFAULT_UNITS ==
    << [max |-> Sec(60),       value |-> Sec(1),        name |-> "second"],  \* 60000, 1000
       [max |-> Sec(2760),     value |-> Sec(60),       name |-> "minute"],  \* 2760000, 60000
       [max |-> Sec(72000),    value |-> Sec(3600),     name |-> "hour"],    \* 72000000, 3600000
       [max |-> Sec(518400),   value |-> Sec(86400),    name |-> "day"],     \* 518400000, 86400000
       [max |-> Sec(2419200),  value |-> Sec(604800),   name |-> "week"],    \* 2419200000, 604800000
       [max |-> Sec(28512000), value |-> Sec(2592000),  name |-> "month"],   \* 28512000000, 2592000000
       [max |-> Infinity,      value |-> Sec(31536000), name |-> "year"] >>  \* Infinity, 31536000000

\* a table that skips the minute: the hour's magnitude rounds to zero inside the hour's bucket
UNITS_NO_MINUTE ==
    << [max |-> Sec(60),    value |-> Sec(1),     name |-> "second"],
       [max |-> Sec(72000), value |-> Sec(3600),  name |-> "hour"],
       [max |-> Infinity,   value |-> Sec(86400), name |-> "day"] >>

\* a table whose max is not increasing and whose last max is finite
UNITS_UNORDERED ==
    << [max |-> Sec(3600), value |-> Sec(1),    name |-> "second"],
       [max |-> Sec(60),   value |-> Sec(3600), name |-> "hour"],
       [max |-> Sec(7200), value |-> Sec(60),   name |-> "minute"] >>

\* a table with strictly increasing max that starts at 0
UNITS_ZERO_MAX ==
    << [max |-> 0,         value |-> Sec(1),    name |-> "second"],
       [max |-> Sec(2760), value |-> Sec(60),   name |-> "minute"],
       [max |-> Infinity,  value |-> Sec(3600), name |-> "hour"] >>

----------------------------------------------------------------------------
(* formatTimeAgo *)

\* a field of a destructured options object, or its default
Opt(o, f, d) == IF f \in DOMAIN o THEN o[f] ELSE d

\* what the function returns: the string, by the call that built it, and the line
\* of the return statement that produced it
RtfFormat(line, neg, val, unit) ==
    [line |-> line, kind |-> "rtf", neg |-> neg, val |-> val, unit |-> unit, date |-> NaN]
FullDate(line, date) ==
    [line |-> line, kind |-> "full", neg |-> FALSE, val |-> 0, unit |-> "", date |-> date]
EmptyString(line) ==
    [line |-> line, kind |-> "empty", neg |-> FALSE, val |-> 0, unit |-> "", date |-> NaN]

\* roundFn(a / v) for a >= 0 and v > 0: Math.round, Math.ceil, Math.floor, or
\* +n.toFixed(0) (rounding given as the number 0; ties go to the larger integer)
roundFn(rounding, a, v) ==
    IF a = NaN THEN NaN
    ELSE LET q == a \div v
             r == a % v
         IN  CASE rounding = "round"   -> q + (IF 2 * r >= v THEN 1 ELSE 0)
               [] rounding = "ceil"    -> q + (IF r > 0 THEN 1 ELSE 0)
               [] rounding = "floor"   -> q
               [] rounding = "toFixed0" -> q + (IF 2 * r >= v THEN 1 ELSE 0)

\* getValue without Math.abs
getValueSigned(rounding, diff, unit) == roundFn(rounding, diff, unit.value)

getValue(rounding, diff, unit) == roundFn(rounding, Abs(diff), unit.value)

\* past with the comparison turned round
pastInverted(diff) == Lt(diff, 0)

\* const past = diff > 0
past(diff) == Gt(diff, 0)

\* rtf.format(past ? -val : val, unit.name): the sign is carried apart from the
\* magnitude, since -0 and 0 are different arguments of the renderer
format(rounding, diff, unit, line) ==
    RtfFormat(line, past(diff), getValue(rounding, diff, unit), unit.name)

\* units.find(i => i.name === max)?.max ; NaN stands for undefined (both are falsy)
unitMax(units, name) ==
    LET hits == {i \in 1..Len(units) : units[i].name = name}
    IN  IF hits = {} THEN NaN
        ELSE units[CHOOSE i \in hits : \A j \in hits : i <= j].max

\* the fallback test with val < 0
fallsBackStrict(val, idx) == val # NaN /\ val < 0 /\ idx > 1

\* val <= 0 && units[idx - 1]   (idx is 1-based here, 0-based in the source)
fallsBack(val, idx) == val # NaN /\ val <= 0 /\ idx > 1

\* the bucket test with absDiff <= unit.max
fitsInclusive(absDiff, unit) == absDiff # NaN /\ unit.max # NaN /\ absDiff <= unit.max

\* absDiff < unit.max
fits(absDiff, unit) == Lt(absDiff, unit.max)

\* no return statement was reached (yet)
NoResult == [line |-> 0, kind |-> "none", neg |-> FALSE, val |-> 0, unit |-> "", date |-> NaN]

\* one iteration with the bucket test made before the fallback test
scanStepBucketFirst(units, rounding, diff, idx) ==
    LET unit == units[idx]
        val == roundFn(rounding, Abs(diff), unit.value)
    IN  IF Lt(Abs(diff), unit.max)
        THEN RtfFormat(173, Gt(diff, 0), val, unit.name)
        ELSE IF val # NaN /\ val <= 0 /\ idx > 1
        THEN RtfFormat(171, Gt(diff, 0),
                       roundFn(rounding, Abs(diff), units[idx - 1].value), units[idx - 1].name)
        ELSE NoResult

\* one iteration of the for loop (lines 169-173): what it returns, or NoResult to go on
scanStep(units, rounding, diff, idx) ==
    LET unit == units[idx]
        val == getValue(rounding, diff, unit)
    IN  IF fallsBack(val, idx) THEN format(rounding, diff, units[idx - 1], 171)
        ELSE IF fits(Abs(diff), unit) THEN format(rounding, diff, unit, 173)
        ELSE NoResult

\* the for loop of lines 168-174 from index idx on, and the return after it
RECURSIVE scan(_, _, _, _)
scan(units, rounding, diff, idx) ==
    IF idx > Len(units) THEN EmptyString(176)
    ELSE LET r == scanStep(units, rounding, diff, idx)
         IN  IF r # NoResult THEN r ELSE scan(units, rounding, diff, idx + 1)

\* absDiff < 60000 && !showSecond
lessThanAMinute(absDiff, showSecond) == Lt(absDiff, Sec(60)) /\ ~showSecond

\* typeof max === 'number' && absDiff > max
numberMaxExceeded(max, absDiff) == max.type = "number" /\ Gt(absDiff, max.n)

\* typeof max === 'string', and unitMax && absDiff > unitMax
unitMaxExceeded(max, units, absDiff) ==
    /\ max.type = "string"
    /\ Truthy(unitMax(units, max.s))
    /\ Gt(absDiff, unitMax(units, max.s))

\* formatTimeAgo with the max threshold tested before the sub-minute shortcut
formatTimeAgoMaxFirst(f, o, n) ==
    LET max == Opt(o, "max", [type |-> "undefined"])
        units == Opt(o, "units", DEFAULT_UNITS)
        showSecond == Opt(o, "showSecond", FALSE)
        rounding == Opt(o, "rounding", "round")
        diff == Sub(n, f)
        absDiff == Abs(diff)
    IN  IF numberMaxExceeded(max, absDiff) THEN FullDate(160, f)
        ELSE IF unitMaxExceeded(max, units, absDiff) THEN FullDate(165, f)
        ELSE IF lessThanAMinute(absDiff, showSecond) THEN RtfFormat(157, FALSE, 0, "second")
        ELSE scan(units, rounding, diff, 1)

formatTimeAgo(f, o, n) ==
    LET max == Opt(o, "max", [type |-> "undefined"])
        units == Opt(o, "units", DEFAULT_UNITS)
        showSecond == Opt(o, "showSecond", FALSE)
        rounding == Opt(o, "rounding", "round")
        diff == Sub(n, f)
        absDiff == Abs(diff)
    IN  IF lessThanAMinute(absDiff, showSecond) THEN RtfFormat(157, FALSE, 0, "second")
        ELSE IF numberMaxExceeded(max, absDiff) THEN FullDate(160, f)
        ELSE IF unitMaxExceeded(max, units, absDiff) THEN FullDate(165, f)
        ELSE scan(units, rounding, diff, 1)

----------------------------------------------------------------------------
(* The inputs of a call of formatTimeAgo *)

\* how many whole multiples of each unit's value the probed differences go up to
MaxMult == 2

UnitTables == {DEFAULT_UNITS, UNITS_NO_MINUTE, UNITS_UNORDERED, UNITS_ZERO_MAX}

UnitNames == {DEFAULT_UNITS[i].name : i \in 1..Len(DEFAULT_UNITS)}

UnitValues == {DEFAULT_UNITS[i].value : i \in 1..Len(DEFAULT_UNITS)}

FiniteMaxes ==
    UNION {{t[i].max : i \in 1..Len(t)} : t \in UnitTables} \ {Infinity}

\* |now - from|: around every multiple and half multiple of every unit value, and
\* around every bucket bound
Diffs ==
    {d \in UNION {{k * v, k * v + 1, k * v + (v \div 2) - 1, k * v + (v \div 2), (k + 1) * v - 1} :
                    k \in 0..MaxMult, v \in UnitValues}
             \cup UNION {{m - 1, m, m + 1} : m \in FiniteMaxes} : d >= 0}

Now0 == Sec(1700000)

Nows == {Now0, NaN}

Froms == {NaN} \cup {Now0 - d : d \in Diffs} \cup {Now0 + d : d \in Diffs}

Roundings == {"round", "ceil", "floor", "toFixed0"}

MaxChoices ==
    {[type |-> "number", n |-> m] : m \in {0, Sec(30), Sec(3600), Sec(2592000)}}
        \cup {[type |-> "string", s |-> u] : u \in UnitNames}

OptionsSet ==
    [max : MaxChoices, showSecond : BOOLEAN, rounding : Roundings, units : UnitTables]
        \cup [showSecond : BOOLEAN, rounding : Roundings, units : UnitTables]
        \cup [max : MaxChoices]
        \cup {<< >>}

\* a call formatTimeAgo(from, options, now) about to be made
FInit ==
    /\ from \in Froms
    /\ now \in Nows
    /\ options \in OptionsSet
    /\ result = NoResult
    /\ pc = "ready"

\* no call of formatTimeAgo is under way
FIdle ==
    /\ from = NaN
    /\ now = NaN
    /\ options = << >>
    /\ result = NoResult
    /\ pc = "idle"

\* the call runs and returns
Call ==
    /\ pc = "ready"
    /\ result' = formatTimeAgo(from, options, now)
    /\ pc' = "done"
    /\ UNCHANGED <<from, now, options>>
    /\ UNCHANGED rvars

----------------------------------------------------------------------------
(* useTimeAgo *)

\* the controls exposed whatever the caller asked for
exposeControlsAlways(o) == TRUE

\* a default interval of one minute
updateIntervalMinute(o) == Opt(o, "updateInterval", Sec(60))

\* const { controls: exposeControls = false, updateInterval = 30_000 } = options
exposeControls(o) == Opt(o, "controls", FALSE)
updateInterval(o) == Opt(o, "updateInterval", Sec(30))

\* the getter of the computed: formatTimeAgo(new Date(toValue(time)), options, toValue(now.value))
timeAgo(t, o, n) == formatTimeAgo(t, o, n)

\* the controls of the time source: pause, resume, stop
Controls == {"pause", "resume", "stop"}

\* what useTimeAgo returns: { timeAgo, ...controls } or the bare timeAgo
Returned(o) == IF exposeControls(o) THEN {"timeAgo"} \cup Controls ELSE {"timeAgo"}

\* how far the wall clock moves in one step, and how many steps it is followed
ClockStep == Sec(15)
MaxSteps == 6

Times == {Now0 - Sec(50), Now0 - Sec(20), Now0 + Sec(100), NaN}

UOptionsSet ==
    {c @@ u @@ f : c \in {<< >>, [controls |-> TRUE], [controls |-> FALSE]},
                   u \in {<< >>, [updateInterval |-> 0], [updateInterval |-> Sec(45)]},
                   f \in {<< >>, [showSecond |-> TRUE]}}

\* resume() of the time source: nothing to start when the interval is 0
started(interval) == interval > 0

\* the state right after useTimeAgo(time, options) returned: the time source holds
\* new Date() and was started at once; the computed has not been evaluated yet
RInit ==
    /\ time \in Times
    /\ uopts \in UOptionsSet
    /\ clock = Now0
    /\ nowRef = Now0
    /\ isActive = started(updateInterval(uopts))
    /\ elapsed = 0
    /\ cache = NoResult
    /\ dirty = TRUE
    /\ last = "create"

\* no wrapper exists
RIdle ==
    /\ time = NaN
    /\ uopts = << >>
    /\ clock = 0
    /\ nowRef = NaN
    /\ isActive = FALSE
    /\ elapsed = 0
    /\ cache = NoResult
    /\ dirty = FALSE
    /\ last = "none"

\* time passes; a running timer is not allowed to miss its firing time
Elapse ==
    /\ pc = "idle"
    /\ clock + ClockStep <= Now0 + MaxSteps * ClockStep
    /\ isActive => elapsed + ClockStep <= updateInterval(uopts)
    /\ clock' = clock + ClockStep
    /\ elapsed' = IF isActive THEN elapsed + ClockStep ELSE elapsed
    /\ last' = "elapse"
    /\ UNCHANGED <<time, uopts, nowRef, isActive, cache, dirty>>
    /\ UNCHANGED fvars

\* the interval fires: update() stores new Date() in now, which invalidates the computed
Tick ==
    /\ pc = "idle"
    /\ isActive
    /\ elapsed = updateInterval(uopts)
    /\ nowRef' = clock
    /\ elapsed' = 0
    /\ dirty' = TRUE
    /\ last' = "tick"
    /\ UNCHANGED <<time, uopts, clock, isActive, cache>>
    /\ UNCHANGED fvars

\* the time input (a ref or getter) takes another value
SetTime ==
    /\ pc = "idle"
    /\ \E t \in Times \ {time} :
          time' = t
    /\ dirty' = TRUE
    /\ last' = "setTime"
    /\ UNCHANGED <<uopts, clock, nowRef, isActive, elapsed, cache>>
    /\ UNCHANGED fvars

\* timeAgo.value is read: the computed re-runs its getter if a dependency changed
Read ==
    /\ pc = "idle"
    /\ cache' = IF dirty THEN timeAgo(time, uopts, nowRef) ELSE cache
    /\ dirty' = FALSE
    /\ last' = "read"
    /\ UNCHANGED <<time, uopts, clock, nowRef, isActive, elapsed>>
    /\ UNCHANGED fvars

\* the caller calls pause(), which it holds only if the controls were returned
Pause ==
    /\ pc = "idle"
    /\ "pause" \in Returned(uopts)
    /\ isActive' = FALSE
    /\ elapsed' = 0
    /\ last' = "pause"
    /\ UNCHANGED <<time, uopts, clock, nowRef, cache, dirty>>
    /\ UNCHANGED fvars

\* the caller calls stop(): the source halts as for pause()
Stop ==
    /\ pc = "idle"
    /\ "stop" \in Returned(uopts)
    /\ isActive' = FALSE
    /\ elapsed' = 0
    /\ last' = "stop"
    /\ UNCHANGED <<time, uopts, clock, nowRef, cache, dirty>>
    /\ UNCHANGED fvars

\* the caller calls resume(): the timer restarts, unless the interval is 0
Resume ==
    /\ pc = "idle"
    /\ "resume" \in Returned(uopts)
    /\ isActive' = started(updateInterval(uopts))
    /\ elapsed' = 0
    /\ last' = "resume"
    /\ UNCHANGED <<time, uopts, clock, nowRef, cache, dirty>>
    /\ UNCHANGED fvars

\* the value a read of timeAgo yields in the current state
TimeAgoValue == IF dirty THEN timeAgo(time, uopts, nowRef) ELSE cache

----------------------------------------------------------------------------

Init == FInit /\ RIdle

Next == Call

Spec == Init /\ [][Next]_vars

ReactiveInit == FIdle /\ RInit

ReactiveNext == Elapse \/ Tick \/ SetTime \/ Read \/ Pause \/ Stop \/ Resume

SpecReactive == ReactiveInit /\ [][ReactiveNext]_vars

----------------------------------------------------------------------------
(* Properties of formatTimeAgo, stated on the call recorded in the state *)

CallReturned == pc = "done"
ValidInput == from # NaN /\ now # NaN
AbsDiff == IF now >= from THEN now - from ELSE from - now
TheUnits == Opt(options, "units", DEFAULT_UNITS)
TheRounding == Opt(options, "rounding", "round")
TheShowSecond == Opt(options, "showSecond", FALSE)
TheMax == Opt(options, "max", [type |-> "undefined"])
IntegerModes == {"round", "ceil", "floor"}

\* the call returned from the unit scan with a phrase
FromScan == result.line \in {171, 173}
\* the call got past the sub-minute shortcut and the max threshold
ReachedScan == result.line \notin {157, 160, 165}

\* val is a / v rounded in the given mode, said without dividing
IsRounded(mode, val, a, v) ==
    /\ val \in Nat
    /\ CASE mode \in {"round", "toFixed0"} -> 2 * (a - val * v) < v /\ 2 * (val * v - a) <= v
         [] mode = "ceil"  -> (val - 1) * v < a /\ a <= val * v
         [] mode = "floor" -> val * v <= a /\ a < (val + 1) * v

\* the magnitude of the unit at index k rounds to zero
RoundsToZero(k) == IsRounded(TheRounding, 0, AbsDiff, TheUnits[k].value)

\* the first unit in table order whose max is strictly greater than |now - from|
FirstFit(units) ==
    CHOOSE i \in 1..Len(units) :
        /\ AbsDiff < units[i].max
        /\ \A k \in 1..(i - 1) : ~(AbsDiff < units[k].max)

\* C1: in the relative branch, with the default table and rounding round, ceil or
\* floor, the phrase is in the first unit whose max is strictly greater than
\* |now - from| and its magnitude is |now - from| / unit.value rounded; if that
\* unit's magnitude rounds to zero and it has a predecessor, the phrase is in the
\* predecessor, with the predecessor's rounded magnitude.
C1_FirstFittingUnit ==
    (/\ CallReturned /\ ValidInput
     /\ TheUnits = DEFAULT_UNITS
     /\ TheRounding \in IntegerModes
     /\ ReachedScan)
    => LET j == FirstFit(DEFAULT_UNITS)
           u == IF j > 1 /\ RoundsToZero(j) THEN DEFAULT_UNITS[j - 1] ELSE DEFAULT_UNITS[j]
       IN  /\ result.kind = "rtf"
           /\ result.unit = u.name
           /\ IsRounded(TheRounding, result.val, AbsDiff, u.value)

\* the edge case of C1 happened: the first fitting default unit rounded to zero
C1_Witness ==
    /\ CallReturned /\ ValidInput
    /\ TheUnits = DEFAULT_UNITS
    /\ TheRounding \in IntegerModes
    /\ ReachedScan
    /\ FirstFit(DEFAULT_UNITS) > 1
    /\ RoundsToZero(FirstFit(DEFAULT_UNITS))
    /\ result.unit = DEFAULT_UNITS[FirstFit(DEFAULT_UNITS) - 1].name

\* C2: whenever |now - from| < 60000 and showSecond is false, the call returns the
\* zero-second phrase rtf.format(0, 'second'), whatever max, units and rounding are.
C2_SubMinuteShortcut ==
    (CallReturned /\ ValidInput /\ AbsDiff < Sec(60) /\ ~TheShowSecond)
    => result = RtfFormat(157, FALSE, 0, "second")

\* the shortcut won although a numeric max below 60000 was exceeded
C2_Witness ==
    /\ CallReturned /\ ValidInput /\ AbsDiff < Sec(60) /\ ~TheShowSecond
    /\ TheMax.type = "number" /\ TheMax.n < Sec(60) /\ AbsDiff > TheMax.n
    /\ result.line = 157

\* the max threshold as C3 states it: |now - from| > max for a numeric max,
\* |now - from| > the max field of the unit named by max for a named unit
ThresholdExceeded ==
    \/ TheMax.type = "number" /\ AbsDiff > TheMax.n
    \/ /\ TheMax.type = "string"
       /\ \E i \in 1..Len(TheUnits) :
             /\ TheUnits[i].name = TheMax.s
             /\ \A k \in 1..(i - 1) : TheUnits[k].name # TheMax.s
             /\ AbsDiff > TheUnits[i].max

LastMaxIsInfinity == TheUnits[Len(TheUnits)].max = Infinity

\* C3: when the sub-minute shortcut does not apply, the call returns
\* fullDateFormatter(from) if the max threshold is exceeded, for a numeric max and
\* for every named unit of the table, and a relative phrase if it is not.
C3_MaxThreshold ==
    (CallReturned /\ ValidInput /\ ~(AbsDiff < Sec(60) /\ ~TheShowSecond))
    => /\ ThresholdExceeded => result.kind = "full" /\ result.date = from
       /\ (~ThresholdExceeded /\ LastMaxIsInfinity) => result.kind = "rtf"

\* C3 for named units whose max in the table is not 0 (and for every numeric max)
C3_NonZeroUnitMax ==
    (/\ CallReturned /\ ValidInput /\ ~(AbsDiff < Sec(60) /\ ~TheShowSecond)
     /\ TheMax.type = "string" => unitMax(TheUnits, TheMax.s) # 0)
    => /\ ThresholdExceeded => result.kind = "full" /\ result.date = from
       /\ (~ThresholdExceeded /\ LastMaxIsInfinity) => result.kind = "rtf"

\* C4: a phrase from the unit scan carries a negative magnitude when from is in the
\* past and a positive one when it is in the future, whatever the unit, the
\* rounding mode and the return statement.
C4_SignFollowsDirection ==
    (CallReturned /\ ValidInput /\ FromScan)
    => /\ now > from => result.neg
       /\ now < from => ~result.neg

\* a fallback phrase for a from in the past
C4_Witness ==
    /\ CallReturned /\ ValidInput
    /\ result.line = 171
    /\ now > from
    /\ result.neg

\* every unit before index i was passed over: no bucket fitted, no fallback was taken
PassedOver(i) ==
    \A k \in 1..(i - 1) :
        /\ ~(AbsDiff < TheUnits[k].max)
        /\ k > 1 => ~RoundsToZero(k)

\* C5: if the scan gets to a unit at an index past the first whose magnitude rounds
\* to zero, the phrase is in the unit before it with that unit's own rounded
\* magnitude, also when |diff| fits the bucket of the unit that rounded to zero.
C5_FallbackToPreviousUnit ==
    (CallReturned /\ ValidInput /\ ReachedScan)
    => \A i \in 2..Len(TheUnits) :
          (PassedOver(i) /\ RoundsToZero(i))
          => /\ result.line = 171
             /\ result.unit = TheUnits[i - 1].name
             /\ IsRounded(TheRounding, result.val, AbsDiff, TheUnits[i - 1].value)
             /\ ~(result.unit = TheUnits[i].name /\ result.val = 0)

\* the fallback was taken for a unit whose bucket |diff| fits
C5_Witness ==
    /\ CallReturned /\ ValidInput /\ ReachedScan
    /\ \E i \in 2..Len(TheUnits) :
          /\ PassedOver(i) /\ RoundsToZero(i)
          /\ AbsDiff < TheUnits[i].max
          /\ result.unit = TheUnits[i - 1].name
    /\ result.line = 171

\* C6: with the default table the call returns '' exactly when from or now is
\* invalid (and then never the full date); every valid call returns a phrase or a date.
C6_EmptyIffInvalid ==
    (CallReturned /\ TheUnits = DEFAULT_UNITS)
    => /\ result.kind = "empty" <=> ~ValidInput
       /\ result.kind \in {"empty", "rtf", "full"}

\* an invalid from with a max and showSecond given
C6_Witness ==
    /\ CallReturned /\ TheUnits = DEFAULT_UNITS
    /\ from = NaN /\ now # NaN
    /\ "max" \in DOMAIN options
    /\ TheShowSecond
    /\ result.kind = "empty"

\* C9: for integer rounding modes, a phrase from the unit scan in a unit other than
\* the first of the table has magnitude >= 1.
C9_ZeroOnlyInFirstUnit ==
    (/\ CallReturned /\ ValidInput /\ FromScan
     /\ TheRounding \in IntegerModes
     /\ result.unit # TheUnits[1].name)
    => result.val >= 1

\* a fallback phrase in a later unit of a custom table
C9_Witness ==
    /\ CallReturned /\ ValidInput
    /\ TheRounding \in IntegerModes
    /\ TheUnits # DEFAULT_UNITS
    /\ result.line = 171
    /\ result.unit # TheUnits[1].name
    /\ result.val >= 1

\* the call with from mirrored about now
Mirrored == formatTimeAgo(now + (now - from), options, now)

\* C10: from = now - d and from = now + d return from the same statement, with the
\* same unit and the same magnitude; a phrase of the scan differs in its sign only.
C10_Symmetry ==
    (CallReturned /\ ValidInput /\ from # now)
    => /\ Mirrored.line = result.line
       /\ Mirrored.kind = result.kind
       /\ Mirrored.unit = result.unit
       /\ Mirrored.val = result.val
       /\ FromScan => Mirrored.neg # result.neg
       /\ result.line = 157 => Mirrored = result

\* a fallback phrase for a from in the future
C10_Witness ==
    /\ CallReturned /\ ValidInput
    /\ from > now
    /\ result.line = 171
    /\ Mirrored.neg

----------------------------------------------------------------------------
(* Properties of useTimeAgo *)

\* the interval the caller asked for: updateInterval, 30000 ms when not given
AskedInterval == IF "updateInterval" \in DOMAIN uopts THEN uopts.updateInterval ELSE Sec(30)

\* the caller asked for the controls
AskedControls == "controls" \in DOMAIN uopts /\ uopts.controls

\* C7 (states): timeAgo holds formatTimeAgo(new Date(time), options, now) for the
\* source's now, which right after a tick is the current time; with
\* updateInterval = 0 the source never runs and now stays at its creation value.
C7_State ==
    /\ TimeAgoValue = formatTimeAgo(time, uopts, nowRef)
    /\ last = "tick" => nowRef = clock
    /\ AskedInterval = 0 => ~isActive /\ nowRef = Now0

\* C7 (steps): now changes only by a tick of the running source, a whole interval
\* after the timer started or last fired; with updateInterval = 0 timeAgo changes
\* only when the time input does.
C7_Step ==
    /\ nowRef' # nowRef => isActive /\ elapsed = AskedInterval /\ last' = "tick"
    /\ last' = "tick" => elapsed = AskedInterval /\ nowRef' = clock
    /\ (AskedInterval = 0 /\ TimeAgoValue' # TimeAgoValue) => time' # time

\* C7: useTimeAgo re-evaluates formatTimeAgo against the time source every
\* updateInterval (default 30000 ms); 0 disables the refresh.
C7_PeriodicRefresh == []C7_State /\ [][C7_Step]_vars

\* with the default interval, a tick moved now and the value read after it differs
\* from the one at creation
C7_Witness ==
    /\ "updateInterval" \notin DOMAIN uopts
    /\ last = "read"
    /\ nowRef > Now0
    /\ cache = formatTimeAgo(time, uopts, nowRef)
    /\ cache # formatTimeAgo(time, uopts, Now0)

\* C8 (states): the controls are returned exactly when asked for; without them the
\* caller performs no pause, resume or stop; after pause or stop the source is
\* halted, after resume it runs again (unless the interval is 0).
C8_State ==
    /\ AskedControls => Returned(uopts) = {"timeAgo"} \cup Controls
    /\ ~AskedControls => Returned(uopts) = {"timeAgo"} /\ last \notin Controls
    /\ last \in {"pause", "stop"} => ~isActive
    /\ last = "resume" => isActive = (AskedInterval > 0)

\* C8 (steps): while the source is halted no step moves now, and timeAgo changes
\* only with the time input; only resume sets the source running again.
C8_Step ==
    /\ ~isActive => nowRef' = nowRef
    /\ (~isActive /\ TimeAgoValue' # TimeAgoValue) => time' # time
    /\ (~isActive /\ isActive') => last' = "resume"
    /\ (isActive /\ ~isActive') => last' \in {"pause", "stop"}

\* C8: pause/resume/stop are exposed only on request and act on the time source
\* that drives timeAgo.
C8_ControlsOnRequest == []C8_State /\ [][C8_Step]_vars

\* the caller paused a running source and more than an interval went by without a tick
C8_Witness ==
    /\ AskedControls
    /\ AskedInterval > 0
    /\ ~isActive
    /\ clock - nowRef > AskedInterval

====
